---- MODULE Spec2Model ----
(***************************************************************************)
(* Webhook intake and usage billing of src/webhooks.py.                    *)
(*                                                                         *)
(* Every webhook delivery is one Flask request handled by orders_create or *)
(* orders_paid.  Requests run concurrently; each opens its own SQLite      *)
(* connection to database.db.  A request is followed in the steps between  *)
(* which another request can see or change the database: the statements of *)
(* save_order's write transaction (which take SQLite's write lock), its    *)
(* commit, the read of the counter with the usage charge it decides, and   *)
(* save_notification.                                                      *)
(***************************************************************************)
EXTENDS Integers, Sequences, FiniteSets

\* ---------------------------------------------------------------- bounds
MaxDeliveries == 2      \* webhook deliveries received in one behaviour

\* ------------------------------------------------------ program constants
USAGE_CHARGE_LIMIT == 100    \* orders included in the plan
USAGE_CHARGE_COST == 25      \* 0.25 per additional order, in hundredths

SHOPIFY_CLIENT_SECRET == "secret"   \* config.SHOPIFY_CLIENT_SECRET
OtherSecret == "forged"             \* any key that is not the shared secret

Deliveries == 1..MaxDeliveries
Shops == {"A", "B"}                 \* X-Shopify-Shop-Domain values

\* Order payloads (request.json): Python dicts, so a key may be absent.
OrderCreated1 == [id |-> 1, updated_at |-> 1, created_at |-> 1]
OrderPaid1 == [id |-> 1, financial_status |-> "paid", updated_at |-> 2, created_at |-> 1]
OrderCreated2 == [id |-> 2, financial_status |-> "pending", updated_at |-> 1, created_at |-> 1]

\* The webhook events a sender delivers, each any number of times: the route
\* and the body.  Order 1 is created and then paid, order 2 is created.
Events ==
    { [topic |-> "create", data |-> OrderCreated1],
      [topic |-> "paid", data |-> OrderPaid1],
      [topic |-> "create", data |-> OrderCreated2] }

\* The shop accounts at the start: shop A is one order below its plan's limit;
\* shop B is at the limit, or has no account (the app is not installed).
\* The users table is taken as save_order reads and writes it, with an integer
\* column order_count; create_users_table of init_db.py does not declare that
\* column, and no code under src/ inserts a users row.
InitialUsers ==
    { [s \in {"A"} |-> [order_count |-> USAGE_CHARGE_LIMIT - 1]],
      [s \in {"A", "B"} |-> [order_count |-> IF s = "A" THEN USAGE_CHARGE_LIMIT - 1
                                              ELSE USAGE_CHARGE_LIMIT]] }

VARIABLES
    users,          \* table users: shop -> [order_count]
    orders,         \* table orders: set of rows
    orders_seq,     \* AUTOINCREMENT sequence of orders.id
    notifications,  \* table notifications: sequence of rows (append only)
    gateway,        \* the usage-charge requests POSTed to the billing gateway
    lock,           \* delivery whose connection holds SQLite's write lock, 0 if none
    tx,             \* uncommitted tables of the connection holding the lock
    req,            \* per delivery: the request and the handler's position
    ledger,         \* history: the committed save_order transactions
    count0          \* history: users as it was initially, never written

vars == <<users, orders, orders_seq, notifications, gateway, lock, tx, req, ledger, count0>>

NoTx == [orders |-> {}, users |-> <<>>, seq |-> 0]
NoHeader == [present |-> FALSE, value |-> <<>>]
NoOrder == [none |-> TRUE]
\* A delivery slot before its request arrives.  row and inc_to are the id of
\* the row the request inserts and the counter value its UPDATE produces;
\* verified and sig are history: the verdict of verify_webhook and the kind
\* of signature header received.
Idle == [pc |-> "idle", topic |-> "none", shop |-> "none", order |-> NoOrder,
         row |-> 0, inc_to |-> -1, response |-> 0,
         verified |-> FALSE, sig |-> "none"]

\* -------------------------------------------------------- verify_webhook
\* hmac.new(key, data, sha256).digest(): a keyed hash, modelled as injective
\* in (key, data).
HmacDigest(key, data) == <<key, data>>
\* base64.b64encode: injective, and the text is longer than its input.
B64Encode(digest) == <<"b64">> \o digest \o <<"=">>
\* The header values a sender can put on a request carrying `data`.
ValidHeader(data) ==
    [present |-> TRUE, value |-> B64Encode(HmacDigest(SHOPIFY_CLIENT_SECRET, data))]
ForgedHeader(data) ==
    [present |-> TRUE, value |-> B64Encode(HmacDigest(OtherSecret, data))]
TruncatedHeader(data) ==
    [present |-> TRUE,
     value |-> SubSeq(ValidHeader(data).value, 1, Len(ValidHeader(data).value) - 1)]
HeaderChoices(data) ==
    {NoHeader, ValidHeader(data), ForgedHeader(data), TruncatedHeader(data)}

\* hmac_header.encode('utf-8') raises AttributeError when the header is None.
VerifyRaises(data, hmac_header) == ~hmac_header.present
\* hmac.compare_digest(computed_hmac, hmac_header.encode('utf-8'))
verify_webhook(data, hmac_header) ==
    B64Encode(HmacDigest(SHOPIFY_CLIENT_SECRET, data)) = hmac_header.value

\* What the sender did to the signature header (history, for the claims).
HeaderKind(data, hdr) ==
    IF ~hdr.present THEN "absent"
    ELSE IF hdr = ValidHeader(data) THEN "valid"
    ELSE IF Len(hdr.value) # Len(ValidHeader(data).value) THEN "malformed"
    ELSE "mismatch"

Init ==
    /\ users \in InitialUsers
    /\ orders = {}
    /\ orders_seq = 0
    /\ notifications = <<>>
    /\ gateway = {}
    /\ lock = 0
    /\ tx = NoTx
    /\ req = [d \in Deliveries |-> Idle]
    /\ ledger = {}
    /\ count0 = users

\* A delivery slot is taken in order; the request's route, headers and body
\* are the sender's choice.
Arrives(d, ev, shop, hdr) ==
    /\ req[d].pc = "idle"
    /\ \A e \in Deliveries : e < d => req[e].pc # "idle"
    /\ ev \in Events /\ shop \in Shops
    /\ hdr \in HeaderChoices(ev.data)

\* The request returns `code`; its locals are dropped, the history is kept.
Finish(r, code) ==
    [Idle EXCEPT !.pc = "done", !.response = code, !.verified = r.verified,
                 !.sig = r.sig]

\* The request once verify_webhook has returned True: order = request.json,
\* shop = the X-Shopify-Shop-Domain header.
Verified(ev, shop, hdr) ==
    [Idle EXCEPT !.topic = ev.topic, !.shop = shop, !.order = ev.data,
                 !.verified = TRUE, !.sig = HeaderKind(ev.data, hdr)]

\* orders_create / orders_paid, lines 82-86 and 96-100, with no signature
\* header: hmac_header is None, verify_webhook raises, Flask answers 500.
VerifyThrow(d) ==
    \E ev \in Events, shop \in Shops :
      \E hdr \in HeaderChoices(ev.data) :
        /\ Arrives(d, ev, shop, hdr)
        /\ VerifyRaises(ev.data, hdr)
        /\ req' = [req EXCEPT ![d] =
                     Finish([Idle EXCEPT !.sig = HeaderKind(ev.data, hdr)], 500)]
        /\ UNCHANGED <<users, orders, orders_seq, notifications, gateway, lock, tx,
                       ledger, count0>>

\* The same lines when verify_webhook returns False:
\* "Webhook verification failed", 400.
VerifyReject(d) ==
    \E ev \in Events, shop \in Shops :
      \E hdr \in HeaderChoices(ev.data) :
        /\ Arrives(d, ev, shop, hdr)
        /\ ~VerifyRaises(ev.data, hdr)
        /\ ~verify_webhook(ev.data, hdr)
        /\ req' = [req EXCEPT ![d] =
                     Finish([Idle EXCEPT !.sig = HeaderKind(ev.data, hdr)], 400)]
        /\ UNCHANGED <<users, orders, orders_seq, notifications, gateway, lock, tx,
                       ledger, count0>>

\* ------------------------------------------------------------ save_order
\* order.get(key, default)
Get(order, key, default) == IF key \in DOMAIN order THEN order[key] ELSE default

\* The row save_order writes; id is the next AUTOINCREMENT value.  The column
\* created_at (DEFAULT CURRENT_TIMESTAMP) is left out: there is no clock.
OrderRow(rowid, order, shop) ==
    [id |-> rowid,
     shopify_order_id |-> order["id"],
     shopify_shop |-> shop,
     status |-> Get(order, "financial_status", "pending"),
     details |-> <<"str", order>>,
     updated_at |-> order["updated_at"]]

\* Mutant of InsertOrReplace: a plain INSERT into a table without the UNIQUE
\* constraint, which keeps the old row.
InsertKeepingOld(rows, row) == rows \cup {row}

\* INSERT OR REPLACE under the table's UNIQUE (shopify_order_id): every row
\* with the new row's shopify_order_id is deleted, then the row is inserted.
InsertOrReplace(rows, row) ==
    {r \in rows : r.shopify_order_id # row.shopify_order_id} \cup {row}

\* Mutant of IncrementCount: the new value is computed from a count read
\* earlier (here the one at start) instead of inside the UPDATE.
IncrementCountStale(u, shop) ==
    [s \in DOMAIN u |->
        IF s = shop THEN [u[s] EXCEPT !.order_count = count0[s].order_count + 1]
        ELSE u[s]]

\* UPDATE users SET order_count = order_count + 1 WHERE shopify_shop = ?
\* (no row matches a shop without an account: nothing is updated).
IncrementCount(u, shop) ==
    [s \in DOMAIN u |->
        IF s = shop THEN [u[s] EXCEPT !.order_count = @ + 1] ELSE u[s]]

\* Mutant of NeedsCharge: the comparison off by one.
NeedsChargeAtLimit(order_count) == order_count >= USAGE_CHARGE_LIMIT

\* line 43: if order_count > USAGE_CHARGE_LIMIT
NeedsCharge(order_count) == order_count > USAGE_CHARGE_LIMIT

\* A verified request runs save_order up to line 37: the INSERT opens the
\* connection's write transaction and takes SQLite's write lock, the UPDATE
\* runs in the same transaction; other connections see nothing of it before
\* the commit.
SaveOrderBegins(d, ev, shop, hdr) ==
    /\ lock = 0
    /\ lock' = d
    /\ tx' = [orders |-> InsertOrReplace(orders,
                              OrderRow(orders_seq + 1, ev.data, shop)),
              users |-> IncrementCount(users, shop),
              seq |-> orders_seq + 1]
    /\ req' = [req EXCEPT ![d] =
                 [Verified(ev, shop, hdr) EXCEPT
                    !.pc = "commit",
                    !.row = orders_seq + 1,
                    !.inc_to = IF shop \in DOMAIN users
                               THEN tx'.users[shop].order_count ELSE -1]]
    /\ UNCHANGED <<users, orders, orders_seq, notifications, gateway, ledger,
                   count0>>

InsertOrder(d) ==
    \E ev \in Events, shop \in Shops :
      \E hdr \in HeaderChoices(ev.data) :
        /\ Arrives(d, ev, shop, hdr)
        /\ ~VerifyRaises(ev.data, hdr)
        /\ verify_webhook(ev.data, hdr)
        /\ SaveOrderBegins(d, ev, shop, hdr)

\* A verified request whose INSERT (lines 31-34) finds the write lock held by
\* another connection until the busy timeout expires:
\* sqlite3.OperationalError (database is locked), 500.
InsertBusy(d) ==
    \E ev \in Events, shop \in Shops :
      \E hdr \in HeaderChoices(ev.data) :
        /\ Arrives(d, ev, shop, hdr)
        /\ ~VerifyRaises(ev.data, hdr)
        /\ verify_webhook(ev.data, hdr)
        /\ lock # 0
        /\ req' = [req EXCEPT ![d] = Finish(Verified(ev, shop, hdr), 500)]
        /\ UNCHANGED <<users, orders, orders_seq, notifications, gateway, lock, tx,
                       ledger, count0>>

\* Mutant of Commit: save_order never commits; closing the connection rolls
\* the transaction back and the request goes on.
CommitForgotten(d) ==
    /\ req[d].pc = "commit"
    /\ lock' = 0
    /\ tx' = NoTx
    /\ req' = [req EXCEPT ![d].pc = "select"]
    /\ UNCHANGED <<users, orders, orders_seq, notifications, gateway, ledger, count0>>

\* Mutant of Commit: the INSERT is committed on its own and the UPDATE of the
\* counter is lost (a commit between lines 34 and 35, none after line 37).
CommitOrdersOnly(d) ==
    /\ req[d].pc = "commit"
    /\ orders' = tx.orders
    /\ orders_seq' = tx.seq
    /\ lock' = 0
    /\ tx' = NoTx
    /\ ledger' = ledger \cup {[by |-> d, row |-> req[d].row, shop |-> req[d].shop,
                                topic |-> req[d].topic, order |-> req[d].order,
                                inc_to |-> req[d].inc_to]}
    /\ req' = [req EXCEPT ![d].pc = "select"]
    /\ UNCHANGED <<users, notifications, gateway, count0>>

\* line 38: conn.commit() publishes the row and the counter and frees the lock.
Commit(d) ==
    /\ req[d].pc = "commit"
    /\ orders' = tx.orders
    /\ users' = tx.users
    /\ orders_seq' = tx.seq
    /\ lock' = 0
    /\ tx' = NoTx
    /\ ledger' = ledger \cup {[by |-> d, row |-> req[d].row, shop |-> req[d].shop,
                                topic |-> req[d].topic, order |-> req[d].order,
                                inc_to |-> req[d].inc_to]}
    /\ req' = [req EXCEPT ![d].pc = "select"]
    /\ UNCHANGED <<notifications, gateway, count0>>

\* lines 41-42 for a shop without a users row: fetchone() is None and the
\* subscript raises TypeError, 500.
SelectRaises(d) ==
    /\ req[d].pc = "select"
    /\ req[d].shop \notin DOMAIN users
    /\ req' = [req EXCEPT ![d] = Finish(req[d], 500)]
    /\ UNCHANGED <<users, orders, orders_seq, notifications, gateway, lock, tx,
                   ledger, count0>>

\* lines 41-43: the counter is read back from the committed table and is
\* within the plan: no charge, save_order returns.
NoCharge(d) ==
    /\ req[d].pc = "select"
    /\ req[d].shop \in DOMAIN users
    /\ ~NeedsCharge(users[req[d].shop].order_count)
    /\ req' = [req EXCEPT ![d].pc = "notify"]
    /\ UNCHANGED <<users, orders, orders_seq, notifications, gateway, lock, tx,
                   ledger, count0>>

\* --------------------------------------------------- create_usage_charge
\* The POST of lines 71-77, as the gateway receives it.
UsageCharge(d, shop, excess_orders, result) ==
    [by |-> d, shop |-> shop, excess_orders |-> excess_orders,
     price |-> excess_orders * USAGE_CHARGE_COST, result |-> result]

\* lines 41-44: the counter read back is over the limit and
\* create_usage_charge(shop, order_count - USAGE_CHARGE_LIMIT) POSTs.
Charge(d, result) ==
    /\ req[d].pc = "select"
    /\ req[d].shop \in DOMAIN users
    /\ NeedsCharge(users[req[d].shop].order_count)
    /\ gateway' = gateway \cup
                     {UsageCharge(d, req[d].shop,
                         users[req[d].shop].order_count - USAGE_CHARGE_LIMIT, result)}

\* The gateway answers 2xx with a JSON body.
ChargeOk(d) ==
    /\ Charge(d, "ok")
    /\ req' = [req EXCEPT ![d].pc = "notify"]
    /\ UNCHANGED <<users, orders, orders_seq, notifications, lock, tx, ledger, count0>>

\* The gateway answers non-2xx with a JSON body: response.json() returns it,
\* save_order discards it and the request goes on.
ChargeRefused(d) ==
    /\ Charge(d, "refused")
    /\ req' = [req EXCEPT ![d].pc = "notify"]
    /\ UNCHANGED <<users, orders, orders_seq, notifications, lock, tx, ledger, count0>>

\* Mutant of ChargeRaises: save_order commits only after the charge, so the
\* exception rolls the request's row and increment back.
ChargeRaisesRollback(d) ==
    /\ Charge(d, "raised")
    /\ orders' = {r \in orders : r.id # req[d].row}
    /\ users' = [users EXCEPT ![req[d].shop].order_count = @ - 1]
    /\ req' = [req EXCEPT ![d] = Finish(req[d], 500)]
    /\ UNCHANGED <<orders_seq, notifications, lock, tx, ledger, count0>>

\* Mutant of ChargeRaises: the failed POST is caught and save_order tries the
\* charge again.
ChargeRaisesRetry(d) ==
    /\ Charge(d, "raised")
    /\ UNCHANGED <<users, orders, orders_seq, notifications, lock, tx, req, ledger,
                   count0>>

\* requests.post raises (network failure) or response.json() raises (a body
\* that is not JSON): the exception leaves save_order and the handler, 500.
\* The transaction of line 38 is committed and stays.
ChargeRaises(d) ==
    /\ Charge(d, "raised")
    /\ req' = [req EXCEPT ![d] = Finish(req[d], 500)]
    /\ UNCHANGED <<users, orders, orders_seq, notifications, lock, tx, ledger, count0>>

\* ------------------------------------------------------ save_notification
\* lines 91 and 105: the message and timestamp of each route.
TimestampKey(topic) == IF topic = "create" THEN "created_at" ELSE "updated_at"
NotificationRow(topic, order, shop) ==
    [shopify_shop |-> shop,
     message |-> IF topic = "create" THEN "New order received"
                 ELSE "Order payment received",
     created_at |-> order[TimestampKey(topic)]]

\* save_notification, lines 47-55, then lines 92/106: the INSERT takes the
\* write lock, the commit appends the row and frees the lock, and the handler
\* returns jsonify({'status': 'success'}).
NotifySave(d) ==
    /\ req[d].pc = "notify"
    /\ TimestampKey(req[d].topic) \in DOMAIN req[d].order
    /\ lock = 0
    /\ notifications' = Append(notifications,
                            NotificationRow(req[d].topic, req[d].order, req[d].shop))
    /\ req' = [req EXCEPT ![d] = Finish(req[d], 200)]
    /\ UNCHANGED <<users, orders, orders_seq, gateway, lock, tx, ledger, count0>>

\* lines 50-53 while another connection holds the write lock until the busy
\* timeout expires: database is locked, the exception leaves the handler, 500.
NotifyBusy(d) ==
    /\ req[d].pc = "notify"
    /\ TimestampKey(req[d].topic) \in DOMAIN req[d].order
    /\ lock # 0
    /\ req' = [req EXCEPT ![d] = Finish(req[d], 500)]
    /\ UNCHANGED <<users, orders, orders_seq, notifications, gateway, lock, tx,
                   ledger, count0>>

\* ------------------------------------------------------- specifications
\* Deliveries handled concurrently.
Next ==
    \E d \in Deliveries :
        \/ VerifyThrow(d) \/ VerifyReject(d)
        \/ InsertOrder(d) \/ InsertBusy(d) \/ Commit(d)
        \/ SelectRaises(d) \/ NoCharge(d)
        \/ ChargeOk(d) \/ ChargeRefused(d) \/ ChargeRaises(d)
        \/ NotifySave(d) \/ NotifyBusy(d)

Spec == Init /\ [][Next]_vars

\* No request is being handled.
Quiet == \A d \in Deliveries : req[d].pc \in {"idle", "done"}

\* Deliveries handled one after another: a request arrives only when no
\* other is being handled, so the write lock is never found held.
SeqNext ==
    \E d \in Deliveries :
        \/ Quiet /\ VerifyThrow(d)
        \/ Quiet /\ VerifyReject(d)
        \/ Quiet /\ InsertOrder(d)
        \/ Commit(d)
        \/ SelectRaises(d) \/ NoCharge(d)
        \/ ChargeOk(d) \/ ChargeRefused(d) \/ ChargeRaises(d)
        \/ NotifySave(d)

SeqSpec == Init /\ [][SeqNext]_vars

\* ------------------------------------------------- malformed payloads
\* A body that is not JSON, as raw text.
NotJson == [raw |-> "{"]
\* request.json (line 88 / 102) parses the body; Flask answers 400 (Bad
\* Request) when it is not JSON.
Parses(data) == "raw" \notin DOMAIN data

\* Payloads lacking a key the handlers read.
CreatedNoCreatedAt == [id |-> 3, updated_at |-> 1]
PaidNoUpdatedAt == [id |-> 3, financial_status |-> "paid", created_at |-> 1]
CreatedNoId == [updated_at |-> 1, created_at |-> 1]

\* Events whose body is malformed, each correctly signed by the sender.
MalformedEvents ==
    { [topic |-> "create", data |-> NotJson],
      [topic |-> "create", data |-> CreatedNoCreatedAt],
      [topic |-> "paid", data |-> PaidNoUpdatedAt],
      [topic |-> "create", data |-> CreatedNoId] }

ArrivesMalformed(d, ev, shop) ==
    /\ req[d].pc = "idle"
    /\ \A e \in Deliveries : e < d => req[e].pc # "idle"
    /\ ev \in MalformedEvents /\ shop \in Shops
    /\ ~VerifyRaises(ev.data, ValidHeader(ev.data))
    /\ verify_webhook(ev.data, ValidHeader(ev.data))

\* line 88 / 102: request.json raises BadRequest, 400; nothing was written.
JsonRaises(d) ==
    \E ev \in MalformedEvents, shop \in Shops :
        /\ ArrivesMalformed(d, ev, shop)
        /\ ~Parses(ev.data)
        /\ req' = [req EXCEPT ![d] =
                     Finish(Verified(ev, shop, ValidHeader(ev.data)), 400)]
        /\ UNCHANGED <<users, orders, orders_seq, notifications, gateway, lock, tx,
                       ledger, count0>>

\* lines 31-34: order['id'] or order['updated_at'] raises KeyError while the
\* arguments of the INSERT are built, before any statement runs, 500.
OrderKeyError(d) ==
    \E ev \in MalformedEvents, shop \in Shops :
        /\ ArrivesMalformed(d, ev, shop)
        /\ Parses(ev.data)
        /\ ~({"id", "updated_at"} \subseteq DOMAIN ev.data)
        /\ req' = [req EXCEPT ![d] =
                     Finish(Verified(ev, shop, ValidHeader(ev.data)), 500)]
        /\ UNCHANGED <<users, orders, orders_seq, notifications, gateway, lock, tx,
                       ledger, count0>>

\* lines 28-37 for a payload that has the keys save_order reads: the
\* transaction begins as for any order.
InsertMalformed(d) ==
    \E ev \in MalformedEvents, shop \in Shops :
        /\ ArrivesMalformed(d, ev, shop)
        /\ Parses(ev.data)
        /\ {"id", "updated_at"} \subseteq DOMAIN ev.data
        /\ SaveOrderBegins(d, ev, shop, ValidHeader(ev.data))

\* line 91 (order['created_at']) or line 105 (order['updated_at']) raises
\* KeyError after save_order has returned, 500.
NotifyKeyError(d) ==
    /\ req[d].pc = "notify"
    /\ TimestampKey(req[d].topic) \notin DOMAIN req[d].order
    /\ req' = [req EXCEPT ![d] = Finish(req[d], 500)]
    /\ UNCHANGED <<users, orders, orders_seq, notifications, gateway, lock, tx,
                   ledger, count0>>

\* Deliveries handled one after another, with well-formed and malformed
\* bodies, all correctly signed.
MalformedNext ==
    \E d \in Deliveries :
        \/ Quiet /\ JsonRaises(d)
        \/ Quiet /\ OrderKeyError(d)
        \/ Quiet /\ InsertMalformed(d)
        \/ Quiet /\ InsertOrder(d)
        \/ Commit(d)
        \/ SelectRaises(d) \/ NoCharge(d)
        \/ ChargeOk(d) \/ ChargeRefused(d) \/ ChargeRaises(d)
        \/ NotifySave(d) \/ NotifyKeyError(d)

MalformedSpec == Init /\ [][MalformedNext]_vars

\* ----------------------------------------------------------------- claims
Done(d) == req[d].pc = "done"
LedgerOf(shop) == {l \in ledger : l.shop = shop}
Increase(shop) == users[shop].order_count - count0[shop].order_count
Max(a, b) == IF a >= b THEN a ELSE b
\* No event was ingested twice for a shop.
NoRedelivery ==
    \A l1, l2 \in ledger :
        (l1.shop = l2.shop /\ l1.topic = l2.topic /\ l1.order = l2.order) => l1 = l2
\* Every delivery received so far was handled to the end and answered 200.
AllAccepted ==
    \A d \in Deliveries : req[d].pc = "idle" \/ (Done(d) /\ req[d].response = 200)

RECURSIVE SumExcess(_)
SumExcess(charges) ==
    IF charges = {} THEN 0
    ELSE LET g == CHOOSE x \in charges : TRUE
         IN g.excess_orders + SumExcess(charges \ {g})

\* The excess units submitted to the billing gateway for a shop.
ChargedUnits(shop) == SumExcess({g \in gateway : g.shop = shop})

\* C1: a delivery whose signature does not verify ends rejected with the
\* client error 400 and leaves nothing behind: no committed order
\* transaction and no usage charge is its own.
UnverifiedRejectedCleanly ==
    \A d \in Deliveries :
        (Done(d) /\ ~req[d].verified) =>
            /\ req[d].response = 400
            /\ \A l \in ledger : l.by # d
            /\ \A g \in gateway : g.by # d

\* C2: once the accepted deliveries have been handled (one after another,
\* every charge confirmed by the gateway), the excess units submitted for a
\* shop add up to max(0, counter - plan limit).
ExcessChargedOnce ==
    (Quiet /\ \A g \in gateway : g.result = "ok") =>
        \A s \in DOMAIN users :
            ChargedUnits(s) = Max(0, users[s].order_count - USAGE_CHARGE_LIMIT)

\* C3: re-delivering an identical event does not increment the counter again:
\* when every delivery so far was accepted and answered 200, a shop's counter
\* has grown by the number of distinct events (route and payload) ingested
\* for it.
RedeliveryCountsOnce ==
    AllAccepted =>
        \A s \in DOMAIN users :
            Increase(s) = Cardinality({<<l.topic, l.order>> : l \in LedgerOf(s)})

\* C4: the counter counts distinct orders: when every delivery so far was
\* accepted and answered 200 and no event was delivered twice, a shop's
\* counter has grown by the number of distinct order ids ingested for it (a
\* create and a paid event of one order count once).
CounterCountsDistinctOrders ==
    (AllAccepted /\ NoRedelivery) =>
        \A s \in DOMAIN users :
            Increase(s) = Cardinality({l.order["id"] : l \in LedgerOf(s)})

\* C5: with deliveries handled one after another, a delivery whose increment
\* brings the counter to at most USAGE_CHARGE_LIMIT submits no usage charge,
\* and the one that brings it to USAGE_CHARGE_LIMIT + 1 submits exactly one,
\* for 1 excess order priced 1 * USAGE_CHARGE_COST.
ThresholdBoundary ==
    \A l \in ledger :
        LET mine == {g \in gateway : g.by = l.by} IN
        /\ (l.shop \in DOMAIN users /\ l.inc_to <= USAGE_CHARGE_LIMIT) => mine = {}
        /\ (l.inc_to = USAGE_CHARGE_LIMIT + 1 /\ req[l.by].pc \in {"notify", "done"}) =>
              /\ Cardinality(mine) = 1
              /\ \A g \in mine : /\ g.shop = l.shop
                                  /\ g.excess_orders = 1
                                  /\ g.price = 1 * USAGE_CHARGE_COST

\* C5 witness: shop A's 100th order was handled without a charge and its
\* 101st has submitted one.
ThresholdWitness ==
    \E l1, l2 \in ledger :
        /\ l1.shop = l2.shop
        /\ l1.inc_to = USAGE_CHARGE_LIMIT /\ l2.inc_to = USAGE_CHARGE_LIMIT + 1
        /\ Done(l1.by) /\ Done(l2.by)
        /\ \A g \in gateway : g.by # l1.by
        /\ \E g \in gateway : g.by = l2.by

\* C6: no lost updates: in every interleaving a shop's counter equals its
\* starting value plus the number of deliveries ledgered for it.
NoLostUpdates ==
    \A s \in DOMAIN users :
        users[s].order_count = count0[s].order_count + Cardinality(LedgerOf(s))

\* C6 witness: two deliveries for one shop are being handled at the same
\* time, both ledgered, and the counter is two above its start.
ConcurrentLedgered ==
    \E d, e \in Deliveries :
        /\ d # e
        /\ req[d].pc = "select" /\ req[e].pc = "select"
        /\ req[d].shop = req[e].shop /\ req[d].shop \in DOMAIN users
        /\ Increase(req[d].shop) = 2

\* C7: a delivery that passed signature verification ends Completed (200,
\* notification appended), whatever the gateway did.  Stated for shops that
\* have an account and deliveries handled one after another.
VerifiedDeliveryCompletes ==
    \A d \in Deliveries :
        (Done(d) /\ req[d].verified /\ \E l \in ledger : l.by = d /\ l.shop \in DOMAIN users)
            => req[d].response = 200

\* C8: a failed usage-charge submission rolls nothing back: the delivery is
\* ledgered, its order id has a record in the store and the counter is not
\* below the value the delivery's increment produced.
GatewayFailureKeepsLedger ==
    \A g \in gateway :
        g.result # "ok" =>
            \E l \in ledger :
                /\ l.by = g.by
                /\ \E r \in orders : r.shopify_order_id = l.order["id"]
                /\ users[l.shop].order_count >= l.inc_to

\* C8 witness: a delivery ended in the gateway's failure.
GatewayFailed ==
    \E g \in gateway : g.result = "raised" /\ Done(g.by) /\ req[g.by].response = 500

\* C9: signature verification fails closed: a delivery with an absent or a
\* malformed signature header is not verified and is rejected with 400.
VerifyFailsClosed ==
    \A d \in Deliveries :
        (Done(d) /\ req[d].sig \in {"absent", "malformed"}) =>
            (~req[d].verified /\ req[d].response = 400)

\* The latest committed delivery of an order id.
LatestFor(k) ==
    CHOOSE l \in ledger :
        /\ l.order["id"] = k
        /\ \A m \in ledger : m.order["id"] = k => m.row <= l.row

\* C10: the store holds at most one order record per (shop, order id), and
\* the record of an order id is wholly the one written by the latest
\* delivery committed for it (status, details and updated_at replaced).
OneRecordPerOrder ==
    /\ \A r1, r2 \in orders :
          (r1.shopify_shop = r2.shopify_shop /\ r1.shopify_order_id = r2.shopify_order_id)
              => r1 = r2
    /\ \A l \in ledger :
          LET last == LatestFor(l.order["id"]) IN
          {r \in orders : r.shopify_order_id = l.order["id"]}
              = {OrderRow(last.row, last.order, last.shop)}

\* C10 witness: an order id was delivered twice for a shop with different
\* payloads and the store holds one record, the later one.
RecordReplaced ==
    \E l1, l2 \in ledger :
        /\ l1.shop = l2.shop /\ l1.order["id"] = l2.order["id"]
        /\ l1.order # l2.order /\ l1.row < l2.row
        /\ {r \in orders : r.shopify_order_id = l2.order["id"]}
              = {OrderRow(l2.row, l2.order, l2.shop)}

\* The transactions of save_order begun so far: the one in flight, if any, and
\* the committed ones.
Transactions ==
    {[by |-> d, row |-> req[d].row, shop |-> req[d].shop, inc_to |-> req[d].inc_to] :
        d \in {e \in Deliveries : req[e].pc = "commit"}}
    \cup {[by |-> l.by, row |-> l.row, shop |-> l.shop, inc_to |-> l.inc_to] : l \in ledger}

\* C11: the order upsert and the counter increment of one delivery are
\* atomic: in every state of the committed store, as any other delivery reads
\* it, the delivery's row id has been allocated (its upsert is in) exactly
\* when its shop's counter has reached the value its increment produced.
UpsertAndIncrementAtomic ==
    \A t \in Transactions :
        t.shop \in DOMAIN users =>
            ((orders_seq >= t.row) <=> (users[t.shop].order_count >= t.inc_to))

\* C11 witness: one delivery of a shop is committed and being handled while
\* another delivery of the same shop has its transaction open.
OpenTransactionObserved ==
    \E d, e \in Deliveries :
        /\ req[d].pc = "commit" /\ req[e].pc = "select"
        /\ req[d].shop = req[e].shop /\ req[d].shop \in DOMAIN users
        /\ orders_seq < req[d].row /\ orders_seq >= req[e].row

\* The keys the handlers read from an order payload.
WellFormed(order) ==
    Parses(order) /\ {"id", "updated_at", "created_at"} \subseteq DOMAIN order

\* C12: a verified delivery whose payload is malformed (not JSON, or lacking
\* id, updated_at or created_at) has no side effects: no committed order
\* transaction and no usage charge comes from such a payload.
MalformedPayloadNoEffects ==
    /\ \A l \in ledger : WellFormed(l.order)
    /\ \A g \in gateway : \E l \in ledger : l.by = g.by /\ WellFormed(l.order)

\* C13: a failure to append the notification neither rolls ingestion back
\* nor fails the delivery: every delivery that has reached save_notification
\* ends answered 200, with the order records and the counters left as
\* committed.
NotificationFailureNotFatal ==
    [][\A d \in Deliveries :
          (req[d].pc = "notify" /\ req'[d].pc = "done") =>
              /\ req'[d].response = 200
              /\ orders' = orders /\ users' = users]_vars

\* C14: a usage-charge request that the gateway did not accept (a non-2xx
\* answer or a network failure) is never taken as a confirmation and is
\* reported: the delivery that submitted it does not end as a plain success,
\* the only outcome the handler reports.
GatewayFailureReported ==
    \A g \in gateway :
        (g.result # "ok" /\ Done(g.by)) => req[g.by].response # 200

\* C15: every shop's counter is non-negative and never decreases: it starts
\* at zero or above, and no step removes a shop's counter or lowers it.
CounterNeverDecreases ==
    /\ \A s \in DOMAIN users : users[s].order_count >= 0
    /\ [][\A s \in DOMAIN users :
              /\ s \in DOMAIN users'
              /\ users'[s].order_count >= users[s].order_count]_vars

\* C15 witness: a shop's counter has gone up twice and a delivery has ended
\* in a failure after its increment was committed.
CounterAdvanced ==
    \E l \in ledger :
        /\ l.shop \in DOMAIN users /\ Increase(l.shop) >= 2
        /\ Done(l.by) /\ req[l.by].response = 500

Ledgered(d) == \E l \in ledger : l.by = d
Notified(d) == Done(d) /\ req[d].response = 200

\* C16: the steps of a delivery happen in the order Received, Verified,
\* Ledgered, Charged (if over the limit), Notified: only verified deliveries
\* are ledgered; a usage charge is submitted only by a delivery whose own
\* upsert and increment are committed; a notification is appended only by a
\* ledgered delivery, as its last step, after its charge attempt if any.
StepsInOrder ==
    /\ \A l \in ledger : req[l.by].verified
    /\ \A g \in gateway : Ledgered(g.by) /\ req[g.by].pc \in {"notify", "done"}
    /\ \A d \in Deliveries : Notified(d) => Ledgered(d)
    /\ Len(notifications) = Cardinality({d \in Deliveries : Notified(d)})

\* C16 witness: a delivery went through every step: verified, ledgered,
\* charged and notified.
WholePathTaken ==
    \E d \in Deliveries :
        /\ Notified(d) /\ req[d].verified /\ Ledgered(d)
        /\ \E g \in gateway : g.by = d
        /\ Len(notifications) >= 1

\* C17: a single delivery submits at most one usage-charge request; a
\* submission that failed is not tried again by the same delivery.
AtMostOneChargePerDelivery ==
    \A d \in Deliveries : Cardinality({g \in gateway : g.by = d}) <= 1

\* C17 witness: a delivery's usage charge failed, the delivery has ended and
\* the failed request is the only one it submitted.
FailedChargeNotRetried ==
    \E d \in Deliveries :
        /\ Done(d)
        /\ {g.result : g \in {h \in gateway : h.by = d}} = {"raised"}

\* C18: under concurrent deliveries for one shop, each delivery's threshold
\* check uses the counter value its own increment produced: a delivery
\* whose increment brought the counter to at most USAGE_CHARGE_LIMIT submits
\* no charge, a charge is computed from the submitting delivery's own value,
\* and no two deliveries compute their charge from the same counter value.
OwnIncrementDecidesCharge ==
    /\ \A l \in ledger :
          (l.shop \in DOMAIN users /\ l.inc_to <= USAGE_CHARGE_LIMIT) =>
              \A g \in gateway : g.by # l.by
    /\ \A g \in gateway : \A l \in ledger :
          l.by = g.by => g.excess_orders = l.inc_to - USAGE_CHARGE_LIMIT
    /\ \A g1, g2 \in gateway :
          (g1.shop = g2.shop /\ g1.excess_orders = g2.excess_orders) => g1.by = g2.by

\* C19: shops are isolated: an accepted delivery for one shop never removes
\* or overwrites an order record of another shop, even with the same
\* platform order id, and changes no counter but its own shop's.  When every
\* delivery so far was accepted, each (shop, order id) ingested still has
\* its record, and each counter has grown by its own shop's deliveries.
ShopsIsolated ==
    AllAccepted =>
        /\ \A l \in ledger :
              \E r \in orders : /\ r.shopify_shop = l.shop
                                /\ r.shopify_order_id = l.order["id"]
        /\ \A s \in DOMAIN users : Increase(s) = Cardinality(LedgerOf(s))

\* C20: every persisted order record references an existing shop account; a
\* verified delivery whose shop has no users row leaves no order record
\* committed.
OrdersReferenceAccounts ==
    \A r \in orders : r.shopify_shop \in DOMAIN users
====
